---- MODULE Spec2Model ----
(***************************************************************************)
(* slack-thread-expander (src/main.rs): a Socket Mode client that keeps a  *)
(* WebSocket open to Slack, decodes the text frames it receives, finds the *)
(* messages posted inside a thread, posts their permalink back to the      *)
(* channel and acknowledges every envelope.                                *)
(*                                                                         *)
(* The module has two parts.  The first models the serde decoding of a     *)
(* text frame and find_threaded_message as operators over an abstract JSON *)
(* value.  The second models main(), handle_text() and handle_event() as a *)
(* state machine with one action per await point.                          *)
(***************************************************************************)
EXTENDS Integers, Sequences, FiniteSets

VARIABLES pc, err, log, epoch, live, url, cur, nframes, oauth, slack_app_token, arg, ret

vars == <<pc, err, log, epoch, live, url, cur, nframes, oauth, slack_app_token, arg, ret>>

(***************************************************************************)
(* Bounds of the model.                                                    *)
(***************************************************************************)
\* Frames (or read errors, or end of stream) the read half yields in a run.
MaxFrames == 2
\* Times the outer loop of main() reconnects in a run.
MaxReconnects == 1

(***************************************************************************)
(* Abstract JSON.  A JSON object is a record; a key that the object does   *)
(* not have holds Absent, a key whose value is JSON null holds Null, and   *)
(* every other value is a JSON string.                                     *)
(***************************************************************************)
Absent == "<absent>"
Null == "<null>"
\* Option::None of a decoded Option<String>.
None == "<none>"

Subtypes == {Absent, Null, "file_share", "message_changed"}
Channels == {Absent, "C1", "C2"}
ThreadTss == {Absent, Null, "0.1", "1.1"}
Tss == {Absent, "1.1", "2.2"}

\* The object under "event" when the payload has no "event" key.
NoEvent == [type |-> Absent, subtype |-> Absent, channel |-> Absent,
            thread_ts |-> Absent, ts |-> Absent, missing |-> TRUE]

\* The "event" objects of an event_callback payload: no type tag, a type
\* this program does not know, and the message events.
EventJsons ==
    [type : {Absent, "reaction_added"}, subtype : {Absent}, channel : {Absent},
     thread_ts : {Absent}, ts : {Absent}, missing : {FALSE}]
    \cup
    [type : {"message"}, subtype : Subtypes, channel : Channels,
     thread_ts : ThreadTss, ts : Tss, missing : {FALSE}]

\* The object under "payload" when the envelope has no "payload" key.
NoPayload == [type |-> Absent, event_id |-> Absent, event |-> NoEvent, missing |-> TRUE]

\* The "payload" objects of an events_api envelope.
PayloadJsons ==
    [type : {Absent, "app_rate_limited"}, event_id : {Absent}, event : {NoEvent},
     missing : {FALSE}]
    \cup
    [type : {"event_callback"}, event_id : {Absent, "Ev1"},
     event : EventJsons \cup {NoEvent}, missing : {FALSE}]

(***************************************************************************)
(* Serde decoding.  A decoded value is a record whose variant field names  *)
(* the enum variant, or "Err" when deserialization fails.                  *)
(***************************************************************************)
NoCommon == [ok |-> FALSE, channel |-> "", thread_ts |-> None, ts |-> ""]

\* A CommonMessageEvent whose channel and ts default to the empty string.
DeserializeCommonMessageEventDefault(v) ==
    [ok |-> TRUE,
     channel |-> IF v.channel \in {Absent, Null} THEN "" ELSE v.channel,
     thread_ts |-> IF v.thread_ts \in {Absent, Null} THEN None ELSE v.thread_ts,
     ts |-> IF v.ts \in {Absent, Null} THEN "" ELSE v.ts]

\* #[derive(Deserialize)] struct CommonMessageEvent: channel and ts are
\* required strings, thread_ts is Option<String> (absent or null is None).
DeserializeCommonMessageEvent(v) ==
    IF v.channel \in {Absent, Null} \/ v.ts \in {Absent, Null}
    THEN NoCommon
    ELSE [ok |-> TRUE, channel |-> v.channel,
          thread_ts |-> IF v.thread_ts \in {Absent, Null} THEN None ELSE v.thread_ts,
          ts |-> v.ts]

\* A MessageEvent that treats every subtype as the plain shape.
DeserializeMessageEventAnySubtype(v) ==
    LET e == DeserializeCommonMessageEvent(v)
    IN  IF e.ok THEN [variant |-> "Plain", e |-> e] ELSE [variant |-> "Err", e |-> NoCommon]

\* impl Deserialize for MessageEvent: read the optional subtype first, then
\* decode the rest as CommonMessageEvent for file_share and for no subtype.
DeserializeMessageEvent(v) ==
    IF v.subtype = "file_share"
    THEN LET e == DeserializeCommonMessageEvent(v)
         IN  IF e.ok THEN [variant |-> "FileShare", e |-> e]
                     ELSE [variant |-> "Err", e |-> NoCommon]
    ELSE IF v.subtype \in {Absent, Null}
    THEN LET e == DeserializeCommonMessageEvent(v)
         IN  IF e.ok THEN [variant |-> "Plain", e |-> e]
                     ELSE [variant |-> "Err", e |-> NoCommon]
    ELSE [variant |-> "Other", e |-> NoCommon]

NoMessage == [variant |-> "Other", e |-> NoCommon]

\* enum EventCallbackEvent, internally tagged by "type", with #[serde(other)].
DeserializeEventCallbackEvent(v) ==
    IF v.missing \/ v.type \in {Absent, Null}
    THEN [variant |-> "Err", me |-> NoMessage]
    ELSE IF v.type = "message"
    THEN LET me == DeserializeMessageEvent(v)
         IN  IF me.variant = "Err" THEN [variant |-> "Err", me |-> NoMessage]
                                   ELSE [variant |-> "Message", me |-> me]
    ELSE [variant |-> "Other", me |-> NoMessage]

NoCallbackEvent == [variant |-> "Other", me |-> NoMessage]

\* An EventsApiPayload without the #[serde(other)] catch-all.
DeserializeEventsApiPayloadNoCatchAll(v) ==
    IF v.missing \/ v.type # "event_callback"
    THEN [variant |-> "Err", event_id |-> "", event |-> NoCallbackEvent]
    ELSE LET ev == DeserializeEventCallbackEvent(v.event)
         IN  IF v.event_id \in {Absent, Null} \/ ev.variant = "Err"
             THEN [variant |-> "Err", event_id |-> "", event |-> NoCallbackEvent]
             ELSE [variant |-> "EventCallback", event_id |-> v.event_id, event |-> ev]

\* enum EventsApiPayload, internally tagged by "type", with #[serde(other)];
\* EventCallbackPayload requires event and event_id.
DeserializeEventsApiPayload(v) ==
    IF v.missing \/ v.type \in {Absent, Null}
    THEN [variant |-> "Err", event_id |-> "", event |-> NoCallbackEvent]
    ELSE IF v.type = "event_callback"
    THEN LET ev == DeserializeEventCallbackEvent(v.event)
         IN  IF v.event_id \in {Absent, Null} \/ ev.variant = "Err"
             THEN [variant |-> "Err", event_id |-> "", event |-> NoCallbackEvent]
             ELSE [variant |-> "EventCallback", event_id |-> v.event_id, event |-> ev]
    ELSE [variant |-> "Other", event_id |-> "", event |-> NoCallbackEvent]

(***************************************************************************)
(* find_threaded_message: Option<(String, String)>, <<>> for None and      *)
(* <<channel, ts>> for Some((channel, ts)).                                *)
(***************************************************************************)
\* A classifier that answers the thread's timestamp instead of the message's.
find_threaded_message_thread_ts(payload) ==
    IF payload.variant # "EventCallback" THEN <<>>
    ELSE IF payload.event.variant # "Message" THEN <<>>
    ELSE IF payload.event.me.variant = "Other" THEN <<>>
    ELSE IF payload.event.me.e.thread_ts = None THEN <<>>
    ELSE <<payload.event.me.e.channel, payload.event.me.e.thread_ts>>

find_threaded_message(payload) ==
    IF payload.variant # "EventCallback" THEN <<>>
    ELSE IF payload.event.variant # "Message" THEN <<>>
    ELSE IF payload.event.me.variant = "Other" THEN <<>>
    ELSE IF payload.event.me.e.thread_ts = None THEN <<>>
    ELSE <<payload.event.me.e.channel, payload.event.me.e.ts>>

(***************************************************************************)
(* The text frames.  json is FALSE for a text that is not JSON at all.     *)
(***************************************************************************)
NoText == [json |-> FALSE, type |-> Absent, app_id |-> Absent,
           envelope_id |-> Absent, payload |-> NoPayload]

EnvelopeIds == {"E1", "E2"}

TextJsons ==
    {NoText}
    \cup
    [json : {TRUE}, type : {"hello"}, app_id : {Absent, "A1"},
     envelope_id : {Absent}, payload : {NoPayload}]
    \cup
    [json : {TRUE}, type : {Absent, "disconnect", "bogus"}, app_id : {Absent},
     envelope_id : {Absent}, payload : {NoPayload}]
    \cup
    [json : {TRUE}, type : {"events_api"}, app_id : {Absent},
     envelope_id : EnvelopeIds \cup {Absent}, payload : PayloadJsons \cup {NoPayload}]

\* A SlackEvent that decodes an unknown tag like a hello.
DeserializeSlackEventCatchAll(t) ==
    IF ~t.json \/ t.type \in {Absent, Null}
    THEN [variant |-> "Err", envelope_id |-> "", payload |-> NoPayload]
    ELSE IF t.type = "disconnect"
    THEN [variant |-> "Disconnect", envelope_id |-> "", payload |-> NoPayload]
    ELSE IF t.type = "events_api"
    THEN IF t.envelope_id \in {Absent, Null} \/ t.payload.missing
         THEN [variant |-> "Err", envelope_id |-> "", payload |-> NoPayload]
         ELSE [variant |-> "EventsApi", envelope_id |-> t.envelope_id,
               payload |-> t.payload]
    ELSE [variant |-> "Hello", envelope_id |-> "", payload |-> NoPayload]

\* enum SlackEvent, internally tagged by "type", without a catch-all:
\* Hello needs connection_info.app_id, EventsApi needs envelope_id and
\* payload; the payload stays an undecoded serde_json::Value.
DeserializeSlackEvent(t) ==
    IF ~t.json \/ t.type \in {Absent, Null}
    THEN [variant |-> "Err", envelope_id |-> "", payload |-> NoPayload]
    ELSE IF t.type = "hello"
    THEN IF t.app_id \in {Absent, Null}
         THEN [variant |-> "Err", envelope_id |-> "", payload |-> NoPayload]
         ELSE [variant |-> "Hello", envelope_id |-> "", payload |-> NoPayload]
    ELSE IF t.type = "disconnect"
    THEN [variant |-> "Disconnect", envelope_id |-> "", payload |-> NoPayload]
    ELSE IF t.type = "events_api"
    THEN IF t.envelope_id \in {Absent, Null} \/ t.payload.missing
         THEN [variant |-> "Err", envelope_id |-> "", payload |-> NoPayload]
         ELSE [variant |-> "EventsApi", envelope_id |-> t.envelope_id,
               payload |-> t.payload]
    ELSE [variant |-> "Err", envelope_id |-> "", payload |-> NoPayload]

(***************************************************************************)
(* What ws_read_stream.try_next() yields: Ok(Some(message)) for the five   *)
(* tungstenite::Message variants, Ok(None) ("End") and Err(_) ("Err").     *)
(***************************************************************************)
Bytes == {"b1", "b2"}

Reads ==
    [kind : {"Ping"}, bytes : Bytes, text : {NoText}]
    \cup
    [kind : {"Pong", "Binary"}, bytes : {"b1"}, text : {NoText}]
    \cup
    [kind : {"Close", "End", "Err"}, bytes : {""}, text : {NoText}]
    \cup
    [kind : {"Text"}, bytes : {""}, text : TextJsons]

(***************************************************************************)
(* The answers of the three REST collaborators.  http is FALSE when the    *)
(* request, the status check or the JSON decoding of the body fails.       *)
(***************************************************************************)
\* Slack answers every apps.connections.open call with a url of its own (it
\* carries a one-use ticket): the url of the k-th call is <<"wss", k>>, and
\* <<>> stands for a missing url.
NoUrl == <<>>
FreshUrl(k) == <<"wss", k>>

AppsConnectionsOpenResponses(k) ==
    [http : {FALSE}, ok : {FALSE}, url : {NoUrl}]
    \cup
    [http : {TRUE}, ok : BOOLEAN, url : {NoUrl, FreshUrl(k)}]

\* The permalink of a message is a function of its channel and timestamp.
PermalinkOf(channel, message_ts) == "https://p/" \o channel \o "/" \o message_ts

ChatGetPermalinkResponses(channel, message_ts) ==
    [http : {FALSE}, ok : {FALSE}, permalink : {None}]
    \cup
    [http : {TRUE}, ok : BOOLEAN, permalink : {None, PermalinkOf(channel, message_ts)}]

ChatPostMessageResponses ==
    [http : {FALSE}, ok : {FALSE}, ts : {None}]
    \cup
    [http : {TRUE}, ok : BOOLEAN, ts : {None, "9.9"}]

(***************************************************************************)
(* How main() and handle_event() read an answer: `?` on the transport,     *)
(* bail! on ok:false, unwrap() on the optional field.                      *)
(***************************************************************************)
\* A handshake that does not look at resp.ok.
AppsConnectionsOpenIgnoringOk(resp) ==
    IF ~resp.http THEN "Err"
    ELSE IF resp.url = NoUrl THEN "Panic"
    ELSE "Ok"

AppsConnectionsOpen(resp) ==
    IF ~resp.http THEN "Err"
    ELSE IF ~resp.ok THEN "Bail"
    ELSE IF resp.url = NoUrl THEN "Panic"
    ELSE "Ok"

\* A permalink lookup that does not look at resp.ok.
ChatGetPermalinkIgnoringOk(resp) ==
    IF ~resp.http THEN "Err"
    ELSE IF resp.permalink = None THEN "Panic"
    ELSE "Ok"

ChatGetPermalink(resp) ==
    IF ~resp.http THEN "Err"
    ELSE IF ~resp.ok THEN "Bail"
    ELSE IF resp.permalink = None THEN "Panic"
    ELSE "Ok"

\* A post that does not look at resp.ok.
ChatPostMessageIgnoringOk(resp) ==
    IF ~resp.http THEN "Err"
    ELSE IF resp.ts = None THEN "Panic"
    ELSE "Ok"

ChatPostMessage(resp) ==
    IF ~resp.http THEN "Err"
    ELSE IF ~resp.ok THEN "Bail"
    ELSE IF resp.ts = None THEN "Panic"
    ELSE "Ok"

\* struct ChatGetPermalinkRequest { channel, message_ts }
ChatGetPermalinkRequest(channel, message_ts) == <<channel, message_ts>>

\* A post request with its two fields exchanged.
ChatPostMessageRequestSwapped(channel, text) == <<text, channel>>

\* struct ChatPostMessageRequest { channel, text }
ChatPostMessageRequest(channel, text) == <<channel, text>>

\* A connect that keeps using the url of the first handshake.
ConnectUrlFirst(u) == <<"wss", 1, "&debug_reconnects=true">>

\* format!("{}&debug_reconnects=true", url)
ConnectUrl(u) == u \o <<"&debug_reconnects=true">>

\* A pong that drops the payload of the ping.
PongEmpty(payload) == [kind |-> "Pong", bytes |-> ""]

\* tungstenite::Message::Pong(payload)
Pong(payload) == [kind |-> "Pong", bytes |-> payload]

\* An acknowledgment that carries the same id whatever the envelope.
AcknowledgeFixed(envelope_id) == [envelope_id |-> "E1"]

\* struct Acknowledge { envelope_id }, as serde_json::to_string writes it.
Acknowledge(envelope_id) == [envelope_id |-> envelope_id]

\* A loop that a disconnect request does not leave.
BreaksLoopCloseOnly(what) == what \in {"Close", "End"}

\* A loop that a hello leaves as well.
BreaksLoopOnHello(what) == what \in {"Close", "End", "Disconnect", "Hello"}

\* A loop that goes on reading after the stream has ended.
BreaksLoopNoEnd(what) == what \in {"Close", "Disconnect"}

\* The reads after which the while loop of main() is left: Ok(None), a Close
\* frame, and a text for which handle_text returns Ok(false) (Disconnect).
BreaksLoop(what) == what \in {"Close", "End", "Disconnect"}

(***************************************************************************)
(* The state machine.                                                      *)
(*   pc      where main() is: "start", "init_open", "init_connect",        *)
(*           "recv", "pong", "resolve", "post", "ack", "close", "re_open", *)
(*           "re_connect", "exited"                                        *)
(*   err     why main() returned (or panicked), "" while it runs           *)
(*   log     history of the reads and of the outbound calls, in order      *)
(*   epoch   number of streams opened so far                               *)
(*   live    epochs whose stream is held by the process                    *)
(*   url     the url of the last handshake answer, <<>> before the first   *)
(*   cur     locals of the frame under handling                            *)
(*   nframes number of reads so far                                        *)
(*   oauth   whether SLACK_OAUTH_TOKEN is set                              *)
(*   slack_app_token  whether SLACK_APP_TOKEN is set                       *)
(*   arg,ret input and result of the classification run (SpecClassify)     *)
(***************************************************************************)
Idle == [bytes |-> "", envelope_id |-> "", channel |-> "", message_ts |-> "",
         permalink |-> ""]

NoRet == [state |-> "off", variant |-> "", out |-> <<>>]

\* What a collaborator answered, as the history records it: the facts of the
\* answer, whatever the program makes of them.
Answered(http, ok, present) ==
    IF ~http THEN "transport"
    ELSE IF ~ok THEN "not_ok"
    ELSE IF ~present THEN "no_field"
    ELSE "ok"

Sent(ok) == IF ok THEN "ok" ELSE "failed"

Entry(k, what, id, a, tags, res, ep, n) ==
    [k |-> k, what |-> what, id |-> id, arg |-> a, tags |-> tags, res |-> res,
     ep |-> ep, n |-> n]

Init ==
    /\ pc = "start"
    /\ err = ""
    /\ log = <<>>
    /\ epoch = 0
    /\ live = {}
    /\ url = NoUrl
    /\ cur = Idle
    /\ nframes = 0
    /\ oauth \in BOOLEAN
    /\ slack_app_token \in BOOLEAN
    /\ arg = NoPayload
    /\ ret = NoRet

\* main() returns Err or panics: the process ends and its stream is dropped.
Exit(reason) ==
    /\ pc' = "exited"
    /\ err' = reason
    /\ live' = {}
    /\ cur' = Idle

\* Lines 20-21: main() reads SLACK_APP_TOKEN and bails when it is not given,
\* before any request is made.
ReadAppToken ==
    /\ pc = "start"
    /\ IF slack_app_token
       THEN /\ pc' = "init_open"
            /\ UNCHANGED <<err, live, cur>>
       ELSE Exit("SLACK_APP_TOKEN is not given")
    /\ UNCHANGED <<log, epoch, url, nframes, oauth, slack_app_token, arg, ret>>

\* The apps.connections.open call of lines 24-35 and of lines 72-83.
Handshake(resp, next) ==
    LET out == AppsConnectionsOpen(resp)
    IN  /\ log' = Append(log, Entry("handshake", "", "", resp.url, <<>>,
                                    Answered(resp.http, resp.ok, resp.url # NoUrl),
                                    epoch, nframes))
        /\ IF out = "Ok"
           THEN /\ pc' = next
                /\ url' = resp.url
                /\ UNCHANGED <<err, live, cur>>
           ELSE /\ Exit("apps.connections.open: " \o out)
                /\ UNCHANGED url
        /\ UNCHANGED <<epoch, nframes, oauth, slack_app_token, arg, ret>>

\* connect_async of lines 37-38 and of lines 84-88.
ConnectAsync(ok) ==
    /\ log' = Append(log, Entry("connect", "", "", ConnectUrl(url), <<>>, Sent(ok),
                                epoch + 1, nframes))
    /\ IF ok
       THEN /\ pc' = "recv"
            /\ epoch' = epoch + 1
            /\ live' = live \cup {epoch + 1}
            /\ UNCHANGED <<err, cur>>
       ELSE /\ Exit("connect_async")
            /\ UNCHANGED epoch
    /\ UNCHANGED <<url, nframes, oauth, slack_app_token, arg, ret>>

OpenConnection(resp) ==
    /\ pc = "init_open"
    /\ Handshake(resp, "init_connect")

Connect(ok) ==
    /\ pc = "init_connect"
    /\ ConnectAsync(ok)

ReopenConnection(resp) ==
    /\ pc = "re_open"
    /\ epoch <= MaxReconnects
    /\ Handshake(resp, "re_connect")

Reconnect(ok) ==
    /\ pc = "re_connect"
    /\ ConnectAsync(ok)

(***************************************************************************)
(* handle_text up to its first await: the two decoding passes and          *)
(* find_threaded_message.  step is where the handling goes on.             *)
(***************************************************************************)
\* A handle_event that never reacts.
handle_event_never(found) == "ack"

\* handle_event: `if let Some((channel, message_ts)) = find_threaded_message(..)`
\* goes on to chat.getPermalink, anything else returns Ok(()) to handle_text,
\* which sends the acknowledgment.
handle_event(found) == IF found = <<>> THEN "ack" ELSE "resolve"

\* The required fields that the shape chosen by the subtype of a message
\* needs and the event object lacks: channel and ts for a message without
\* subtype or with subtype file_share, nothing for any other event.
Lacks(ev) ==
    IF /\ ev.type = "message"
       /\ ev.subtype \in {Absent, Null, "file_share"}
       /\ (ev.channel = Absent \/ ev.ts = Absent)
    THEN "channel or ts"
    ELSE ""

handle_text(t) ==
    LET event == DeserializeSlackEvent(t)
        payload == DeserializeEventsApiPayload(event.payload)
        found == find_threaded_message(payload)
        tags == <<t.type, t.payload.type, t.payload.event_id, t.payload.event.type,
                  Lacks(t.payload.event)>>
    IN  IF event.variant = "Err"
        THEN [what |-> "TextErr", id |-> "", cls |-> <<>>, tags |-> tags,
              step |-> "decode_error"]
        ELSE IF event.variant = "Hello"
        THEN [what |-> "Hello", id |-> "", cls |-> <<>>, tags |-> tags, step |-> "done"]
        ELSE IF event.variant = "Disconnect"
        THEN [what |-> "Disconnect", id |-> "", cls |-> <<>>, tags |-> tags,
              step |-> "done"]
        ELSE IF payload.variant = "Err"
        THEN [what |-> "EventsApi", id |-> event.envelope_id, cls |-> <<"Err">>,
              tags |-> tags, step |-> "decode_error"]
        ELSE [what |-> "EventsApi", id |-> event.envelope_id, cls |-> found,
              tags |-> tags, step |-> handle_event(found)]

\* As if the arm of a frame ran as a task of its own: the next read could be
\* made while a send or a call of the frame is awaited.
AtLoopHeadOrAwaiting(p) == p \in {"recv", "pong", "resolve", "post", "ack"}

\* try_next() is polled at the head of the while loop only: the arm taken
\* for a frame, with every await in it, is part of the loop body (lines 44-68).
AtLoopHead(p) == p = "recv"

\* One turn of `while let Some(message) = ws_read_stream.try_next().await?`
\* up to the first await of the arm taken.
Recv(m) ==
    /\ AtLoopHead(pc)
    /\ nframes < MaxFrames
    /\ nframes' = nframes + 1
    /\ LET h == IF m.kind = "Text" THEN handle_text(m.text)
                ELSE [what |-> m.kind, id |-> m.bytes, cls |-> <<>>, tags |-> <<>>,
                      step |-> IF m.kind = "Err" THEN "read_error"
                               ELSE IF m.kind = "Ping" THEN "pong" ELSE "done"]
       IN  /\ log' = Append(log, Entry("recv", h.what, h.id, h.cls, h.tags, h.step,
                                       epoch, nframes + 1))
           /\ CASE h.step = "read_error" -> Exit("try_next")
                [] h.step = "decode_error" -> Exit("serde_json")
                [] h.step = "pong" ->
                      /\ pc' = "pong"
                      /\ cur' = [Idle EXCEPT !.bytes = m.bytes]
                      /\ UNCHANGED <<err, live>>
                [] h.step = "ack" ->
                      /\ pc' = "ack"
                      /\ cur' = [Idle EXCEPT !.envelope_id = h.id]
                      /\ UNCHANGED <<err, live>>
                [] h.step = "resolve" ->
                      /\ pc' = "resolve"
                      /\ cur' = [Idle EXCEPT !.envelope_id = h.id, !.channel = h.cls[1],
                                             !.message_ts = h.cls[2]]
                      /\ UNCHANGED <<err, live>>
                [] OTHER ->
                      /\ pc' = IF BreaksLoop(h.what) THEN "close" ELSE "recv"
                      /\ UNCHANGED <<err, live, cur>>
    /\ UNCHANGED <<epoch, url, oauth, slack_app_token, arg, ret>>

\* ws_sink.send(Message::Pong(payload)).await?
SendPong(ok) ==
    /\ pc = "pong"
    /\ log' = Append(log, Entry("pong", Pong(cur.bytes).kind, Pong(cur.bytes).bytes, <<>>,
                                <<>>, Sent(ok), epoch, nframes))
    /\ IF ok
       THEN /\ pc' = "recv"
            /\ cur' = Idle
            /\ UNCHANGED <<err, live>>
       ELSE Exit("send pong")
    /\ UNCHANGED <<epoch, url, nframes, oauth, slack_app_token, arg, ret>>

\* handle_event, first call: SLACK_OAUTH_TOKEN, then chat.getPermalink with
\* (channel, message_ts).
ResolvePermalink(resp) ==
    /\ pc = "resolve"
    /\ IF ~oauth
       THEN /\ Exit("SLACK_OAUTH_TOKEN")
            /\ UNCHANGED log
       ELSE LET out == ChatGetPermalink(resp)
            IN  /\ log' = Append(log, Entry("resolve", "", resp.permalink,
                                            ChatGetPermalinkRequest(cur.channel,
                                                                    cur.message_ts),
                                            <<>>,
                                            Answered(resp.http, resp.ok,
                                                     resp.permalink # None),
                                            epoch, nframes))
                /\ IF out = "Ok"
                   THEN /\ pc' = "post"
                        /\ cur' = [cur EXCEPT !.permalink = resp.permalink]
                        /\ UNCHANGED <<err, live>>
                   ELSE Exit("chat.getPermalink: " \o out)
    /\ UNCHANGED <<epoch, url, nframes, oauth, slack_app_token, arg, ret>>

\* handle_event, second call: chat.postMessage with (channel, text: permalink).
PostMessage(resp) ==
    /\ pc = "post"
    /\ LET out == ChatPostMessage(resp)
       IN  /\ log' = Append(log, Entry("post", "", resp.ts,
                                       ChatPostMessageRequest(cur.channel, cur.permalink),
                                       <<>>, Answered(resp.http, resp.ok, resp.ts # None),
                                       epoch, nframes))
           /\ IF out = "Ok"
              THEN /\ pc' = "ack"
                   /\ UNCHANGED <<err, live, cur>>
              ELSE Exit("chat.postMessage: " \o out)
    /\ UNCHANGED <<epoch, url, nframes, oauth, slack_app_token, arg, ret>>

\* ws_sink.send(Message::Text(to_string(&Acknowledge { envelope_id }))).await?
SendAck(ok) ==
    /\ pc = "ack"
    /\ log' = Append(log, Entry("ack", "Text", Acknowledge(cur.envelope_id).envelope_id,
                                <<>>, <<>>, Sent(ok), epoch, nframes))
    /\ IF ok
       THEN /\ pc' = "recv"
            /\ cur' = Idle
            /\ UNCHANGED <<err, live>>
       ELSE Exit("send ack")
    /\ UNCHANGED <<epoch, url, nframes, oauth, slack_app_token, arg, ret>>

\* ws_sink.reunite(ws_read_stream)?.close(None).await?: the reunited stream
\* is a temporary, dropped whether or not the close succeeds.
CloseStream(ok) ==
    /\ pc = "close"
    /\ log' = Append(log, Entry("close", "", "", <<>>, <<>>, Sent(ok), epoch, nframes))
    /\ IF ok
       THEN /\ pc' = "re_open"
            /\ live' = live \ {epoch}
            /\ UNCHANGED <<err, cur>>
       ELSE Exit("close")
    /\ UNCHANGED <<epoch, url, nframes, oauth, slack_app_token, arg, ret>>

Next ==
    \/ ReadAppToken
    \/ \E resp \in AppsConnectionsOpenResponses(epoch + 1) : OpenConnection(resp)
    \/ \E ok \in BOOLEAN : Connect(ok)
    \/ \E m \in Reads : Recv(m)
    \/ \E ok \in BOOLEAN : SendPong(ok)
    \/ \E resp \in ChatGetPermalinkResponses(cur.channel, cur.message_ts) :
          ResolvePermalink(resp)
    \/ \E resp \in ChatPostMessageResponses : PostMessage(resp)
    \/ \E ok \in BOOLEAN : SendAck(ok)
    \/ \E ok \in BOOLEAN : CloseStream(ok)
    \/ \E resp \in AppsConnectionsOpenResponses(epoch + 1) : ReopenConnection(resp)
    \/ \E ok \in BOOLEAN : Reconnect(ok)

Spec == Init /\ [][Next]_vars

(***************************************************************************)
(* The classification alone, as the tests of main.rs run it: a payload is  *)
(* decoded with serde_json::from_value and given to find_threaded_message. *)
(***************************************************************************)
InitClassify ==
    /\ pc = "classify"
    /\ err = ""
    /\ log = <<>>
    /\ epoch = 0
    /\ live = {}
    /\ url = NoUrl
    /\ cur = Idle
    /\ nframes = 0
    /\ oauth = FALSE
    /\ slack_app_token = FALSE
    /\ arg \in PayloadJsons
    /\ ret = [state |-> "pending", variant |-> "", out |-> <<>>]

Classify ==
    /\ pc = "classify"
    /\ ret.state = "pending"
    /\ LET payload == DeserializeEventsApiPayload(arg)
       IN  ret' = [state |-> "done", variant |-> payload.variant,
                   out |-> IF payload.variant = "Err" THEN <<>>
                           ELSE find_threaded_message(payload)]
    /\ UNCHANGED <<pc, err, log, epoch, live, url, cur, nframes, oauth, slack_app_token, arg>>

NextClassify == Classify

SpecClassify == InitClassify /\ [][NextClassify]_vars

(***************************************************************************)
(* Reading the history.                                                    *)
(***************************************************************************)
Idx == DOMAIN log

IsRecv(i) == log[i].k = "recv"

\* A text frame that decoded to SlackEvent::EventsApi.
IsEnvelope(i) == IsRecv(i) /\ log[i].what = "EventsApi"

\* An envelope for which find_threaded_message returned Some((channel, ts)).
IsMatched(i) == IsEnvelope(i) /\ Len(log[i].arg) = 2

\* The handling of the n-th read is over: main() is no longer inside the arm
\* taken for it.
Settled(n) == nframes > n \/ pc \notin {"pong", "resolve", "post", "ack"}

\* The entries of kind k written while the n-th read was handled.
During(k, n) == {j \in Idx : log[j].k = k /\ log[j].n = n}

\* No read followed the n-th one and its handling is over.
JustHandled(n) == nframes = n /\ pc \notin {"pong", "resolve", "post", "ack"}

\* main() is in the receive loop of the connection of epoch e.
ConnectedOn(e) == pc = "recv" /\ err = "" /\ epoch = e /\ live = {e}

(***************************************************************************)
(* C1.  For every text frame that decodes to an Events-API envelope and    *)
(* whose payload decodes, an Acknowledgment with the envelope's            *)
(* envelope_id is handed to the sink once the handling is over, whether    *)
(* the classification matched or not and whether chat.getPermalink and     *)
(* chat.postMessage succeeded or failed.                                   *)
(***************************************************************************)
C1_AckWhateverTheOutcome ==
    \A i \in Idx :
        (IsEnvelope(i) /\ log[i].arg # <<"Err">> /\ Settled(log[i].n))
            => \E j \in During("ack", log[i].n) : log[j].id = log[i].id

(***************************************************************************)
(* C2.  Every Acknowledgment sent answers an envelope frame received       *)
(* before it, carries that frame's envelope_id and goes over the           *)
(* connection (epoch) that delivered the frame; no frame is acknowledged   *)
(* twice.                                                                  *)
(***************************************************************************)
C2_AckOnceOnItsConnection ==
    /\ \A j \in Idx :
          log[j].k = "ack" =>
              \E i \in 1..(j - 1) :
                  /\ IsEnvelope(i)
                  /\ log[i].n = log[j].n
                  /\ log[i].id = log[j].id
                  /\ log[i].ep = log[j].ep
    /\ \A n \in 1..nframes : Cardinality(During("ack", n)) <= 1

\* An envelope delivered by the second connection was acknowledged on it.
C2_Witness ==
    \E i, j \in Idx :
        /\ IsEnvelope(i) /\ log[i].ep = 2 /\ log[i].id = "E2"
        /\ log[j].k = "ack" /\ log[j].n = log[i].n /\ log[j].res = "ok"

IsCloseOrDisconnect(i) == IsRecv(i) /\ log[i].what \in {"Close", "Disconnect"}

(***************************************************************************)
(* C3.  After a Close frame or a Disconnect text the loop is left: the     *)
(* next thing main() does is close the stream, and no frame is read before *)
(* a handshake answered with a url and a stream was opened with it.        *)
(***************************************************************************)
C3_ReconnectBeforeNextFrame ==
    \A i \in Idx :
        IsCloseOrDisconnect(i) =>
            /\ i < Len(log) => log[i + 1].k = "close"
            /\ \A j \in Idx :
                  (i < j /\ IsRecv(j)) =>
                      \E h, c \in (i + 1)..(j - 1) :
                          /\ h < c
                          /\ log[h].k = "handshake" /\ log[h].res = "ok"
                          /\ log[c].k = "connect" /\ log[c].res = "ok"
                          /\ log[j].ep = log[c].ep

\* A Disconnect, then a frame read on the next connection.
C3_Witness ==
    \E i, j \in Idx :
        /\ i < j
        /\ IsRecv(i) /\ log[i].what = "Disconnect"
        /\ IsRecv(j) /\ log[j].what = "Hello"

(***************************************************************************)
(* C4.  A read error on the stream is recoverable: main() leaves the loop  *)
(* as for a Close frame and goes on to close and re-open, it does not      *)
(* return.                                                                 *)
(***************************************************************************)
C4_ReadErrorReconnects ==
    \A i \in Idx :
        (IsRecv(i) /\ log[i].what = "Err" /\ i = Len(log))
            => (pc = "close" /\ err = "")

\* One pong, with the payload of the ping, on its connection, and nothing else.
PingAnswered(i) ==
    /\ \E j \in During("pong", log[i].n) :
          /\ During("pong", log[i].n) = {j}
          /\ log[j].what = "Pong"
          /\ log[j].id = log[i].id
          /\ log[j].ep = log[i].ep
    /\ During("ack", log[i].n) = {}
    /\ During("resolve", log[i].n) = {}
    /\ During("post", log[i].n) = {}

(***************************************************************************)
(* C5, as claimed.  A Ping(payload) is answered by exactly one Pong with   *)
(* the same payload and by nothing else: no Acknowledgment, no REST call,  *)
(* and main() is back in the receive loop of the same connection.          *)
(***************************************************************************)
C5_PingOnlyPongs ==
    \A i \in Idx :
        (IsRecv(i) /\ log[i].what = "Ping" /\ Settled(log[i].n)) =>
            /\ PingAnswered(i)
            /\ JustHandled(log[i].n) => ConnectedOn(log[i].ep)

(***************************************************************************)
(* C5, as amended.  A Ping(payload) is answered by exactly one Pong send   *)
(* with the same payload, no Acknowledgment and no REST call; main() is    *)
(* back in the receive loop of the same connection when the send succeeds  *)
(* and returns the error of the send when it fails.                        *)
(***************************************************************************)
C5_PingOnlyPongsUnlessSendFails ==
    \A i \in Idx :
        (IsRecv(i) /\ log[i].what = "Ping" /\ Settled(log[i].n)) =>
            /\ PingAnswered(i)
            /\ \A j \in During("pong", log[i].n) :
                  JustHandled(log[i].n) =>
                      IF log[j].res = "ok" THEN ConnectedOn(log[i].ep)
                      ELSE pc = "exited" /\ err = "send pong"

\* The second of two pings was answered with its own payload.
C5_Witness ==
    \E i, j \in Idx :
        /\ IsRecv(i) /\ log[i].what = "Ping" /\ log[i].id = "b2" /\ log[i].n = 2
        /\ log[j].k = "pong" /\ log[j].n = 2 /\ log[j].res = "ok"
        /\ ConnectedOn(1)

\* arg is an event_callback payload, with its event_id, around a message.
IsMessagePayload ==
    /\ arg.type = "event_callback"
    /\ arg.event_id # Absent
    /\ ~arg.event.missing
    /\ arg.event.type = "message"

\* The message carries the two required fields of CommonMessageEvent.
HasChannelAndTs == arg.event.channel # Absent /\ arg.event.ts # Absent

(***************************************************************************)
(* C6.  A message event without subtype, or with subtype file_share, that  *)
(* has a non-null thread_ts classifies to Some((channel, ts)): the         *)
(* event's channel and the message's own ts, not its thread_ts, the same   *)
(* for both shapes.                                                        *)
(***************************************************************************)
C6_ThreadedMessageFound ==
    (/\ ret.state = "done"
     /\ IsMessagePayload
     /\ HasChannelAndTs
     /\ arg.event.subtype \in {Absent, "file_share"}
     /\ arg.event.thread_ts \notin {Absent, Null})
        => /\ ret.variant = "EventCallback"
           /\ ret.out = <<arg.event.channel, arg.event.ts>>

\* A file upload inside a thread, whose ts differs from its thread_ts.
C6_Witness ==
    /\ ret.state = "done"
    /\ IsMessagePayload
    /\ arg.event.subtype = "file_share"
    /\ arg.event.thread_ts = "0.1"
    /\ ret.out = <<"C2", "2.2">>

(***************************************************************************)
(* C7.  A message event with a subtype other than file_share classifies to *)
(* None whatever its thread_ts and its other fields; so does a plain or    *)
(* file_share message whose thread_ts is null or absent.                   *)
(***************************************************************************)
C7_OtherSubtypeOrNoThreadIgnored ==
    (ret.state = "done" /\ IsMessagePayload) =>
        /\ arg.event.subtype \notin {Absent, Null, "file_share"}
              => (ret.variant = "EventCallback" /\ ret.out = <<>>)
        /\ (/\ arg.event.subtype \in {Absent, Null, "file_share"}
            /\ HasChannelAndTs
            /\ arg.event.thread_ts \in {Absent, Null})
              => (ret.variant = "EventCallback" /\ ret.out = <<>>)

\* A changed message inside a thread, without a channel.
C7_Witness ==
    /\ ret.state = "done"
    /\ IsMessagePayload
    /\ arg.event.subtype = "message_changed"
    /\ arg.event.thread_ts = "1.1"
    /\ arg.event.channel = Absent
    /\ ret.variant = "EventCallback"
    /\ ret.out = <<>>

\* An envelope whose payload has a type tag the program does not know, or
\* whose event_callback (with its event_id) carries an event of a type it
\* does not know.
\* tags = <<type, payload.type, payload.event_id, payload.event.type, lacks>>
UnknownShape(i) ==
    /\ IsEnvelope(i)
    /\ \/ log[i].tags[2] \notin {Absent, "event_callback"}
       \/ /\ log[i].tags[2] = "event_callback"
          /\ log[i].tags[3] # Absent
          /\ log[i].tags[4] \notin {Absent, "message"}

DecodedToNothing(i) ==
    /\ log[i].arg = <<>>
    /\ During("resolve", log[i].n) = {}
    /\ During("post", log[i].n) = {}

(***************************************************************************)
(* C8, as claimed.  An envelope of an unknown shape decodes without error  *)
(* and classifies to None: no REST call is made for it, handling it does   *)
(* not fail and main() stays in the receive loop of the same connection.   *)
(***************************************************************************)
C8_UnknownShapeHarmless ==
    \A i \in Idx :
        UnknownShape(i) =>
            /\ DecodedToNothing(i)
            /\ JustHandled(log[i].n) => ConnectedOn(log[i].ep)

(***************************************************************************)
(* C8, as amended.  An envelope of an unknown shape decodes without error  *)
(* and classifies to None: no REST call is made for it and handling goes   *)
(* straight to the send of its acknowledgment; main() stays in the receive *)
(* loop of the same connection when that send succeeds and returns its     *)
(* error when it fails.                                                    *)
(***************************************************************************)
C8_UnknownShapeHarmlessUnlessSendFails ==
    \A i \in Idx :
        UnknownShape(i) =>
            /\ DecodedToNothing(i)
            /\ i = Len(log) => (pc = "ack" /\ cur.envelope_id = log[i].id)
            /\ JustHandled(log[i].n) =>
                  \E j \in During("ack", log[i].n) :
                      IF log[j].res = "ok" THEN ConnectedOn(log[i].ep)
                      ELSE pc = "exited" /\ err = "send ack"

\* An unknown payload type, then an unknown event type, both acknowledged.
C8_Witness ==
    \E i, j \in Idx :
        /\ UnknownShape(i) /\ log[i].tags[2] = "app_rate_limited" /\ log[i].n = 1
        /\ UnknownShape(j) /\ log[j].tags[4] = "reaction_added" /\ log[j].n = 2
        /\ During("ack", 2) # {}
        /\ ConnectedOn(1)

(***************************************************************************)
(* C9.  chat.postMessage is called only after the chat.getPermalink call   *)
(* made for the same envelope answered ok with a permalink; after a failed *)
(* lookup nothing is posted; each of the two is called at most once per    *)
(* envelope.                                                               *)
(***************************************************************************)
C9_PostOnlyAfterPermalink ==
    /\ \A j \in Idx :
          log[j].k = "post" =>
              \E i \in 1..(j - 1) :
                  /\ log[i].k = "resolve"
                  /\ log[i].n = log[j].n
                  /\ log[i].res = "ok"
                  /\ log[i].id # None
    /\ \A i \in Idx :
          (log[i].k = "resolve" /\ log[i].res # "ok") => During("post", log[i].n) = {}
    /\ \A n \in 1..nframes :
          /\ Cardinality(During("resolve", n)) <= 1
          /\ Cardinality(During("post", n)) <= 1

\* A permalink was posted for the second of two threaded messages.
C9_Witness ==
    /\ During("post", 1) # {}
    /\ During("post", 2) # {}
    /\ \E i \in During("resolve", 2) : log[i].res = "ok"

(***************************************************************************)
(* C10.  An apps.connections.open answer with ok:false or without url is   *)
(* fatal at startup and on every reconnect: main() ends, no stream is      *)
(* opened for it and the call is not made again.                           *)
(***************************************************************************)
C10_FailedHandshakeFatal ==
    \A i \in Idx :
        (log[i].k = "handshake" /\ log[i].res # "ok") =>
            /\ i = Len(log)
            /\ pc = "exited"
            /\ err # ""
            /\ live = {}

\* A reconnect whose handshake answered ok:false, with a url in the answer.
C10_Witness ==
    \E i \in Idx :
        /\ log[i].k = "handshake" /\ log[i].res = "not_ok" /\ log[i].arg # NoUrl
        /\ log[i].ep = 1
        /\ pc = "exited"

\* A text frame that serde_json could not decode, in the first pass
\* (SlackEvent) or in the second (EventsApiPayload).
IsDecodeFailure(i) ==
    IsRecv(i) /\ (log[i].what = "TextErr" \/ (IsEnvelope(i) /\ log[i].arg = <<"Err">>))

\* A chat.getPermalink or chat.postMessage call that failed.
IsReactionFailure(i) == log[i].k \in {"resolve", "post"} /\ log[i].res # "ok"

\* Nothing was read, sent or called after entry i and main() has ended.
EndsProcess(i) == i = Len(log) /\ pc = "exited" /\ err # "" /\ live = {}

(***************************************************************************)
(* C11.  A text frame that fails to decode, and a reaction call that       *)
(* fails, end the process: no further frame is read, no handshake is made  *)
(* again and nothing else is sent.                                         *)
(***************************************************************************)
C11_DispatchFailureEndsProcess ==
    \A i \in Idx : (IsDecodeFailure(i) \/ IsReactionFailure(i)) => EndsProcess(i)

\* chat.postMessage answered ok:false for the second frame of the run.
C11_Witness ==
    \E i \in Idx :
        /\ log[i].k = "post" /\ log[i].res = "not_ok" /\ log[i].id # None
        /\ log[i].n = 2
        /\ EndsProcess(i)

(***************************************************************************)
(* C12, as claimed.  When chat.getPermalink or chat.postMessage fails, the *)
(* connection is dropped and main() reconnects: it closes the stream and   *)
(* goes back to the handshake.                                             *)
(***************************************************************************)
C12_ReactionFailureReconnects ==
    \A i \in Idx :
        (IsReactionFailure(i) /\ i = Len(log)) => (pc = "close" /\ err = "")

(***************************************************************************)
(* C12, as amended.  When chat.getPermalink or chat.postMessage fails,     *)
(* main() returns the error of that call: the stream is not closed with    *)
(* close(None), apps.connections.open is not called again and no stream is *)
(* opened.                                                                 *)
(***************************************************************************)
C12_ReactionFailureNoReconnect ==
    \A i \in Idx :
        IsReactionFailure(i) =>
            /\ pc = "exited"
            /\ err = (IF log[i].k = "resolve" THEN "chat.getPermalink: "
                      ELSE "chat.postMessage: ")
                     \o (CASE log[i].res = "transport" -> "Err"
                           [] log[i].res = "not_ok" -> "Bail"
                           [] OTHER -> "Panic")
            /\ \A j \in Idx :
                  j > i => log[j].k \notin {"close", "handshake", "connect", "recv"}

\* chat.getPermalink answered ok:false, with a permalink in the answer, on
\* the connection opened by a reconnect.
C12_Witness ==
    \E i \in Idx :
        /\ log[i].k = "resolve" /\ log[i].res = "not_ok" /\ log[i].id # None
        /\ log[i].ep = 2
        /\ pc = "exited"

\* A text frame that is JSON and whose outer type tag is none of hello,
\* disconnect and events_api.
HasUnknownOuterTag(i) ==
    /\ IsRecv(i)
    /\ log[i].tags # <<>>
    /\ log[i].tags[1] \notin {Absent, "hello", "disconnect", "events_api"}

(***************************************************************************)
(* C13, as claimed.  A text frame with an unknown outer type tag fails to  *)
(* decode and the failure touches that frame only: main() stays in the     *)
(* receive loop of the same connection.                                    *)
(***************************************************************************)
C13_UnknownOuterTagSkipsFrame ==
    \A i \in Idx :
        HasUnknownOuterTag(i) =>
            /\ log[i].what = "TextErr"
            /\ JustHandled(log[i].n) => ConnectedOn(log[i].ep)

(***************************************************************************)
(* C13, as amended.  A text frame with an unknown outer type tag fails to  *)
(* decode and main() returns the serde_json error: nothing is sent for     *)
(* the frame and no further frame is read.                                 *)
(***************************************************************************)
C13_UnknownOuterTagEndsProcess ==
    \A i \in Idx :
        HasUnknownOuterTag(i) =>
            /\ log[i].what = "TextErr"
            /\ EndsProcess(i)
            /\ err = "serde_json"
            /\ nframes = log[i].n

\* An unknown outer tag in the second frame of the run.
C13_Witness ==
    \E i \in Idx :
        /\ HasUnknownOuterTag(i) /\ log[i].tags[1] = "bogus" /\ log[i].n = 2
        /\ pc = "exited"

\* The envelope_ids of the envelopes read on the connection of epoch e, and
\* of the acknowledgments sent on it, in the order of the history.
EnvelopesOn(e) ==
    LET picked == SelectSeq(log, LAMBDA x : x.k = "recv" /\ x.what = "EventsApi" /\ x.ep = e)
    IN  [i \in 1..Len(picked) |-> picked[i].id]

AcksOn(e) ==
    LET picked == SelectSeq(log, LAMBDA x : x.k = "ack" /\ x.ep = e)
    IN  [i \in 1..Len(picked) |-> picked[i].id]

\* The read that was the last one made when entry x was written.
LastReadBefore(x) ==
    CHOOSE i \in 0..(x - 1) :
        /\ i # 0 => IsRecv(i)
        /\ \A m \in (i + 1)..(x - 1) : ~IsRecv(m)

\* Entry x is a send or a call that belongs to the frame of read i.
MadeFor(x, i) ==
    CASE log[x].k = "pong" -> log[i].what = "Ping" /\ log[x].id = log[i].id
      [] log[x].k = "ack" -> IsEnvelope(i) /\ log[x].id = log[i].id
      [] log[x].k = "resolve" -> IsMatched(i) /\ log[x].arg = log[i].arg
      [] log[x].k = "post" -> IsMatched(i) /\ log[x].arg[1] = log[i].arg[1]
      [] OTHER -> TRUE

\* Between the entries i and j lies everything the frame of read i asks for,
\* each answered ok: the Pong of a Ping, the Acknowledgment of an envelope,
\* and before it the two calls of an envelope that classified to Some.
HandledBetween(i, j) ==
    LET Has(k, lo, hi) == {x \in lo..hi : /\ log[x].k = k /\ log[x].res = "ok"
                                          /\ MadeFor(x, i)}
    IN  /\ log[i].what = "Ping" => Has("pong", i + 1, j - 1) # {}
        /\ IsEnvelope(i) => Has("ack", i + 1, j - 1) # {}
        /\ IsMatched(i) =>
              \E r \in Has("resolve", i + 1, j - 1) :
                  \E q \in Has("post", r + 1, j - 1) : Has("ack", q + 1, j - 1) # {}

(***************************************************************************)
(* C14.  Frames are handled one at a time in the order of arrival: every   *)
(* send and call is made for the frame read last; when a frame is read,    *)
(* the handling of the frame read before it has finished (the Pong of a    *)
(* Ping sent, the calls of a matched envelope answered, the envelope       *)
(* acknowledged); and on each connection the acknowledgments sent are, in  *)
(* order, those of the envelopes read on it.                               *)
(***************************************************************************)
C14_OneFrameAtATime ==
    /\ \A x \in Idx :
          log[x].k \in {"pong", "resolve", "post", "ack"} =>
              (LastReadBefore(x) # 0 /\ MadeFor(x, LastReadBefore(x)))
    /\ \A j \in Idx :
          (IsRecv(j) /\ LastReadBefore(j) # 0) => HandledBetween(LastReadBefore(j), j)
    /\ \A e \in 1..epoch :
          /\ Len(AcksOn(e)) <= Len(EnvelopesOn(e))
          /\ AcksOn(e) = SubSeq(EnvelopesOn(e), 1, Len(AcksOn(e)))

\* Two envelopes with different ids read and acknowledged on one connection,
\* the first one after its two calls.
C14_Witness ==
    /\ EnvelopesOn(1) = <<"E2", "E1">>
    /\ AcksOn(1) = <<"E2", "E1">>
    /\ \E i \in Idx : IsMatched(i) /\ log[i].id = "E2"

(***************************************************************************)
(* C15.  At most one stream is held at any time: a reconnect handshake is  *)
(* made only after the stream was closed, every stream is opened with the  *)
(* url of the handshake made just before it, and no url is used twice.     *)
(***************************************************************************)
C15_OneLiveStreamFreshUrl ==
    /\ Cardinality(live) <= 1
    /\ \A h \in Idx :
          (log[h].k = "handshake" /\ h > 1) =>
              (log[h - 1].k = "close" /\ log[h - 1].res = "ok" /\ log[h].ep \notin live)
    /\ \A c \in Idx :
          log[c].k = "connect" =>
              /\ c > 1
              /\ log[c - 1].k = "handshake"
              /\ log[c - 1].res = "ok"
              /\ log[c].arg = log[c - 1].arg \o <<"&debug_reconnects=true">>
              /\ \A d \in Idx : (log[d].k = "connect" /\ d # c) => log[d].arg # log[c].arg

\* The stream of the second epoch is the only one held.
C15_Witness ==
    /\ live = {2}
    /\ pc = "recv"
    /\ \E c \in Idx : log[c].k = "connect" /\ log[c].ep = 2 /\ log[c].res = "ok"

(***************************************************************************)
(* C16.  chat.getPermalink is called only for an envelope that classified  *)
(* to Some((channel, ts)), with that channel and ts; chat.postMessage is   *)
(* called with the same channel and, as text, the permalink that the       *)
(* lookup of that envelope returned; an envelope that classified to None   *)
(* causes no REST call.                                                    *)
(***************************************************************************)
C16_RestCallsFollowClassification ==
    /\ \A r \in Idx :
          log[r].k = "resolve" =>
              \E i \in 1..(r - 1) :
                  IsMatched(i) /\ log[i].n = log[r].n /\ log[r].arg = log[i].arg
    /\ \A p \in Idx :
          log[p].k = "post" =>
              \E i, r \in 1..(p - 1) :
                  /\ IsMatched(i) /\ log[i].n = log[p].n
                  /\ log[r].k = "resolve" /\ log[r].n = log[p].n
                  /\ log[p].arg = <<log[i].arg[1], log[r].id>>
    /\ \A i \in Idx :
          (IsRecv(i) /\ ~IsMatched(i)) =>
              (During("resolve", log[i].n) = {} /\ During("post", log[i].n) = {})

\* The permalink of the message 2.2 of channel C2 was posted to C2.
C16_Witness ==
    \E i, p \in Idx :
        /\ IsMatched(i) /\ log[i].arg = <<"C2", "2.2">>
        /\ log[p].k = "post" /\ log[p].n = log[i].n
        /\ log[p].arg = <<"C2", "https://p/C2/2.2">>

(***************************************************************************)
(* C17.  Only a text frame that decodes to an Events-API envelope causes   *)
(* an Acknowledgment: Hello, Disconnect, Ping, Pong, Binary and Close      *)
(* cause no Acknowledgment and no REST call, and after a Hello main() is   *)
(* still in the receive loop of the same connection.                       *)
(***************************************************************************)
C17_AckOnlyForEnvelopes ==
    /\ \A j \in Idx :
          log[j].k \in {"ack", "resolve", "post"} =>
              \E i \in 1..(j - 1) : IsEnvelope(i) /\ log[i].n = log[j].n
    /\ \A i \in Idx :
          (IsRecv(i) /\ log[i].what \in {"Hello", "Disconnect", "Ping", "Pong",
                                         "Binary", "Close"}) =>
              /\ During("ack", log[i].n) = {}
              /\ During("resolve", log[i].n) = {}
              /\ During("post", log[i].n) = {}
              /\ (log[i].what = "Hello" /\ nframes = log[i].n) => ConnectedOn(log[i].ep)

\* A Binary frame, then a Hello, and the loop goes on.
C17_Witness ==
    \E i, j \in Idx :
        /\ IsRecv(i) /\ log[i].what = "Binary" /\ log[i].n = 1
        /\ IsRecv(j) /\ log[j].what = "Hello" /\ log[j].n = 2
        /\ ConnectedOn(1)

\* An envelope whose payload lacks something its shape requires: the type
\* tag of the payload, the event_id or the event of an event_callback, the
\* type tag of the event, or the channel or ts of a message without subtype
\* or with subtype file_share.
LacksRequired(i) ==
    /\ IsEnvelope(i)
    /\ \/ log[i].tags[2] = Absent
       \/ /\ log[i].tags[2] = "event_callback"
          /\ (log[i].tags[3] = Absent \/ log[i].tags[4] = Absent \/ log[i].tags[5] # "")

(***************************************************************************)
(* C18, as claimed.  An envelope whose payload lacks a required tag or     *)
(* field is a no-op and not an error: no REST call is made, the envelope   *)
(* is acknowledged and main() stays in the receive loop of the same        *)
(* connection.                                                             *)
(***************************************************************************)
C18_MissingFieldIsNoOp ==
    \A i \in Idx :
        LacksRequired(i) =>
            /\ During("resolve", log[i].n) = {}
            /\ During("post", log[i].n) = {}
            /\ Settled(log[i].n) => During("ack", log[i].n) # {}
            /\ JustHandled(log[i].n) => (pc # "exited" /\ err = "")

(***************************************************************************)
(* C18, as amended.  An envelope whose payload lacks a required tag or     *)
(* field fails to decode in serde_json::from_value: no REST call is made,  *)
(* no Acknowledgment is sent and main() returns the error.                 *)
(***************************************************************************)
C18_MissingFieldEndsProcess ==
    \A i \in Idx :
        LacksRequired(i) =>
            /\ log[i].arg = <<"Err">>
            /\ During("resolve", log[i].n) = {}
            /\ During("post", log[i].n) = {}
            /\ During("ack", log[i].n) = {}
            /\ EndsProcess(i)
            /\ err = "serde_json"

\* A message inside a thread, without subtype and without channel or ts.
C18_Witness ==
    \E i \in Idx :
        /\ LacksRequired(i)
        /\ log[i].tags[4] = "message" /\ log[i].tags[5] # ""
        /\ log[i].n = 2
        /\ pc = "exited"

(***************************************************************************)
(* C19.  The Acknowledgment of an envelope is sent after its handling: for *)
(* an envelope that classified to Some, after chat.getPermalink and        *)
(* chat.postMessage were both called for it and answered ok, never before  *)
(* or between them.                                                        *)
(***************************************************************************)
C19_AckAfterHandling ==
    \A a \in Idx :
        log[a].k = "ack" =>
            /\ \A j \in Idx :
                  (log[j].k \in {"resolve", "post"} /\ log[j].n = log[a].n) => j < a
            /\ \A i \in Idx :
                  (IsMatched(i) /\ log[i].n = log[a].n) =>
                      \E r, p \in (i + 1)..(a - 1) :
                          /\ r < p
                          /\ log[r].k = "resolve" /\ log[r].res = "ok"
                          /\ log[p].k = "post" /\ log[p].res = "ok"

\* A threaded message was looked up, posted and then acknowledged.
C19_Witness ==
    \E i, a \in Idx :
        /\ IsMatched(i) /\ log[i].id = "E2"
        /\ log[a].k = "ack" /\ log[a].n = log[i].n /\ log[a].res = "ok"

(***************************************************************************)
(* C20.  When the stream ends (try_next yields Ok(None)) main() does what  *)
(* it does after a Close frame: it closes the stream, and no frame is read *)
(* before a handshake answered with a url and a stream was opened; when    *)
(* closing the stream fails main() ends without making the handshake.      *)
(***************************************************************************)
C20_EndOfStreamReconnects ==
    /\ \A i \in Idx :
          (IsRecv(i) /\ log[i].what = "End") =>
              /\ i = Len(log) => (pc = "close" /\ err = "")
              /\ i < Len(log) => (log[i + 1].k = "close" /\ log[i + 1].ep = log[i].ep)
              /\ \A j \in Idx :
                    (i < j /\ IsRecv(j)) =>
                        /\ log[j].ep > log[i].ep
                        /\ \E h, c \in (i + 2)..(j - 1) :
                              /\ h < c
                              /\ log[h].k = "handshake" /\ log[h].res = "ok"
                              /\ log[c].k = "connect" /\ log[c].res = "ok"
    /\ \A x \in Idx :
          (log[x].k = "close" /\ log[x].res # "ok") => EndsProcess(x)

\* The stream ended, and a frame was read on the stream opened after it.
C20_Witness ==
    \E i, j \in Idx :
        /\ i < j
        /\ IsRecv(i) /\ log[i].what = "End"
        /\ IsRecv(j) /\ log[j].what = "Binary" /\ log[j].ep = 2

====
